---- MODULE Spec2Model ----
(***************************************************************************)
(* Device-to-cluster allocation (device_alloc): the Device / Cluster       *)
(* entities, the MIP built by DeviceOptimizer, the two-phase               *)
(* optimize_contention and the multi-scenario optimize sweep.              *)
(*                                                                         *)
(* Numbers.  Python floats are modelled as fixed-point numbers with One    *)
(* units per 1.0 (so 0.9999 is Slack units); sums and products of          *)
(* representable values are exact, a division rounds to the nearest        *)
(* representable value (ties to even) as the IEEE division does.  Energy   *)
(* values (energy_y, carbon_intensity) are plain integers; an interpolated *)
(* energy is kept as a numerator over the common denominator EnergyDen.    *)
(* None is the empty tuple, a present optional value v is <<v>>.           *)
(***************************************************************************)
EXTENDS Integers, Sequences, FiniteSets, TLC

\* ------------------------------------------------------------------ bounds
MaxDevices == 2
MaxNIter == 2
MaxAdjustN == 5
MaxBpts == 3
MaxPoolClusters == 2
MaxHosts == 2
MaxRecords == 2
MaxAllocations == 2

\* --------------------------------------------------------------- constants
\* the 0.9999 of the vm_count_ub constraint, in fixed-point units of 0.00005
Slack == 19998
\* the float 1.0 in fixed-point units: 0.0001 above Slack
One == Slack + (Slack \div 9999)
\* rel_tol=0.01 of math.isclose, as the denominator 1/100
RelTolDen == 100
\* default contention_corr of optimize_contention (2.0)
DefaultContentionCorr == 2
\* common denominator of the interpolated energies: every segment width of
\* the curves of CurveSet divides it
EnergyDen == 2 * One

None == <<>>
Some(v) == <<v>>
IsNone(o) == o = <<>>
Val(o) == o[1]

\* ----------------------------------------------------------------- helpers
Abs(a) == IF a < 0 THEN -a ELSE a
Max(a, b) == IF a >= b THEN a ELSE b
Min(a, b) == IF a <= b THEN a ELSE b
Range(s) == {s[i] : i \in DOMAIN s}

RECURSIVE SumOver(_, _)
\* sum(f[k] for k in S)
SumOver(f, S) ==
  IF S = {} THEN 0
  ELSE LET k == CHOOSE e \in S : TRUE IN f[k] + SumOver(f, S \ {k})

\* a / b of two floats, rounded to the nearest representable value (b > 0)
RoundDiv(a, b) ==
  LET q == a \div b
      r == a % b
  IN IF 2 * r < b THEN q
     ELSE IF 2 * r > b THEN q + 1
     ELSE IF q % 2 = 0 THEN q ELSE q + 1

\* fault: the plateau test compares the two energies for equality
isclose_exact(a, b) == a = b

\* math.isclose(a, b, rel_tol=0.01): |a-b| <= rel_tol * max(|a|, |b|)
isclose(a, b) == RelTolDen * Abs(a - b) <= Max(Abs(a), Abs(b))

\* tuple comparison of two breakpoints (load_x, energy_y)
BptLeq(p, q) == p[1] < q[1] \/ (p[1] = q[1] /\ p[2] <= q[2])

RECURSIVE InsertBpt(_, _)
InsertBpt(p, s) ==
  IF s = <<>> THEN <<p>>
  ELSE IF BptLeq(p, Head(s)) THEN <<p>> \o s
  ELSE <<Head(s)>> \o InsertBpt(p, Tail(s))

RECURSIVE sorted(_)
\* sorted(breakpoints)
sorted(s) == IF s = <<>> THEN <<>> ELSE InsertBpt(Head(s), sorted(Tail(s)))

\* s[:-1]
DropLast(s) == SubSeq(s, 1, Len(s) - 1)

\* ---------------------------------------------------------------- entities
\* Device(id, load, capacity_load, cluster_ids)
Device(id, load, capacity_load, cluster_ids) ==
  [id |-> id, load |-> load, capacity_load |-> capacity_load,
   cluster_ids |-> cluster_ids]

\* Cluster(id, capacity, max_capacity, energy, carbon_intensity)
Cluster(id, max_capacity, energy, carbon_intensity) ==
  [id |-> id, max_capacity |-> max_capacity, energy |-> energy,
   carbon_intensity |-> carbon_intensity]

\* fault: the variant's load follows its capacity_load
adjust_variant_load_follows(self, load) ==
  Device(self.id, load, load, self.cluster_ids)

\* Device(self.id, self.load, load, self.cluster_ids) of the adjust loop
adjust_variant(self, load) ==
  Device(self.id, self.load, load, self.cluster_ids)

\* Device.adjust(n_iter): the list of variants, or the raised ValueError
RECURSIVE AdjustLoop(_, _, _, _)
AdjustLoop(self, load, diff, steps) ==
  IF steps = 0 THEN <<>>
  ELSE LET l1 == load + diff
           l2 == Max(Min(l1, One), 0)
       IN <<adjust_variant(self, l2)>>
            \o AdjustLoop(self, l2, diff, steps - 1)

\* fault: adjust without its n_iter guard: n_iter = 1 divides by zero, a
\* smaller n_iter runs no iteration
adjust_unguarded(self, n_iter) ==
  IF n_iter = 1 THEN [raised |-> "ZeroDivisionError", value |-> <<>>]
  ELSE IF n_iter < 1 THEN [raised |-> "", value |-> <<self>>]
  ELSE LET n == n_iter - 1
           diff == RoundDiv(One - self.capacity_load, n)
       IN [raised |-> "",
           value |-> <<self>> \o AdjustLoop(self, self.capacity_load, diff, n)]

adjust(self, n_iter) ==
  IF n_iter < 2 THEN [raised |-> "ValueError", value |-> <<>>]
  ELSE LET n == n_iter - 1
           diff == RoundDiv(One - self.capacity_load, n)
       IN [raised |-> "",
           value |-> <<self>> \o AdjustLoop(self, self.capacity_load, diff, n)]

\* ------------------------------------------------------ create_cluster_pool
\* abs_tol=0.5 of the isclose that finds the contention sample
AbsTol == One \div 2

\* host_energy: the parsed CPU_ENERGY samples of the host template, or the
\* flat zero curve up to the running cpu_total when the template has none
host_energy(host, cpu_total) ==
  IF IsNone(host.cpu_energy) THEN << <<0, 0>>, <<cpu_total, 0>> >>
  ELSE Val(host.cpu_energy)

RECURSIVE contention_energy(_, _)
\* the energy of the first sample whose cpu is within abs_tol of cont_cpu,
\* 0 when the loop finds none
contention_energy(samples, cont_cpu) ==
  IF samples = <<>> THEN 0
  ELSE IF Abs(Head(samples)[1] - cont_cpu) <= AbsTol THEN Head(samples)[2]
  ELSE contention_energy(Tail(samples), cont_cpu)

\* min(interc_energy, e) with interc_energy = inf as None
min_energy(interc_energy, e) ==
  IF IsNone(interc_energy) THEN Some(e) ELSE Some(Min(Val(interc_energy), e))

\* the body of `for host_id in host_ids` for one host, on the accumulators
host_step(acc, host) ==
  LET cpu_total == acc.cpu_total + RoundDiv(host.total_cpu * One, 100)
      energy == host_energy(host, cpu_total)
      cont_cpu == host.cores * One
  IN [n_vms |-> acc.n_vms + host.vms,
      cpu_total |-> cpu_total,
      interc_energy |-> min_energy(acc.interc_energy, energy[1][2]),
      cont |-> acc.cont + cont_cpu,
      cont_energy |-> acc.cont_energy + contention_energy(energy, cont_cpu),
      cap |-> acc.cap + (cpu_total \div One) * One]

RECURSIVE host_loop(_, _)
host_loop(acc, hosts) ==
  IF hosts = <<>> THEN acc
  ELSE host_loop(host_step(acc, Head(hosts)), Tail(hosts))

RECURSIVE cluster_loop(_, _)
\* `for cluster in clusters`: n_vms and cpu_total start at 0.0 for every
\* cluster, interc_energy, cont, cont_energy and cap carry over from the
\* cluster before
cluster_loop(acc, cluster_list) ==
  IF cluster_list = <<>> THEN <<>>
  ELSE LET cluster == Head(cluster_list)
           a == host_loop([acc EXCEPT !.n_vms = 0, !.cpu_total = 0],
                          cluster.hosts)
           bpts == << <<0, Val(a.interc_energy)>>, <<a.cont, a.cont_energy>>,
                      <<a.cap, a.cont_energy>> >>
       IN <<Cluster(cluster.id, a.cpu_total, bpts, cluster.carbon_intensity)>>
            \o cluster_loop(a, Tail(cluster_list))

\* create_cluster_pool(oned_client): the Cluster list built from the
\* snapshot
create_cluster_pool(snapshot) ==
  cluster_loop([n_vms |-> 0, cpu_total |-> 0, interc_energy |-> None,
                cont |-> 0, cont_energy |-> 0, cap |-> 0], snapshot)

\* ------------------------------------------------- DeviceOptimizer.__init__
\* fault: the policies cut the last breakpoint of every curve, plateau or
\* not, and so does the 1.0 policy
energy_bpts_cut_always(energy, contention_corr) ==
  IF Len(energy) < 2 THEN [raised |-> "IndexError", value |-> <<>>]
  ELSE IF IsNone(contention_corr) \/ Val(contention_corr) = 1
    THEN [raised |-> "", value |-> DropLast(energy)]
  ELSE [raised |-> "",
        value |-> Append(DropLast(energy),
                    <<energy[Len(energy)][1],
                      energy[Len(energy)][2] * Val(contention_corr)>>)]

\* the breakpoint policy of one cluster under contention_corr:
\* IndexError when energy[-1] / energy[-2] does not exist
energy_bpts(energy, contention_corr) ==
  IF IsNone(contention_corr)
    THEN IF Len(energy) < 2 THEN [raised |-> "IndexError", value |-> <<>>]
         ELSE IF isclose(energy[Len(energy)][2], energy[Len(energy) - 1][2])
           THEN [raised |-> "", value |-> DropLast(energy)]
           ELSE [raised |-> "", value |-> energy]
  ELSE IF Val(contention_corr) = 1
    THEN [raised |-> "", value |-> energy]
  ELSE IF Len(energy) < 2 THEN [raised |-> "IndexError", value |-> <<>>]
       ELSE LET last_bpt == energy[Len(energy)]
            IN IF isclose(last_bpt[2], energy[Len(energy) - 1][2])
                 THEN [raised |-> "",
                       value |-> Append(DropLast(energy),
                                   <<last_bpt[1],
                                     last_bpt[2] * Val(contention_corr)>>)]
                 ELSE [raised |-> "", value |-> energy]

\* fault: the policy cuts and rescales the cluster's own list
energy_after_init_in_place(energy, contention_corr) ==
  IF energy_bpts(energy, contention_corr).raised # "" THEN energy
  ELSE energy_bpts(energy, contention_corr).value

\* cluster.energy after __init__ ran its policy under contention_corr: the
\* cut is the new list energy[:-1] and the rescaled breakpoint is appended
\* to that new list, so the cluster's own list is as it was
energy_after_init(energy, contention_corr) == energy

\* the input clusters after DeviceOptimizer(...) under contention_corr
clusters_after_init(clusters_, contention_corr) ==
  [i \in DOMAIN clusters_ |->
     [clusters_[i] EXCEPT !.energy = energy_after_init(@, contention_corr)]]

\* {device.id: device for device in devices}
ById(coll) ==
  [id \in {coll[i].id : i \in DOMAIN coll} |->
     coll[CHOOSE i \in DOMAIN coll :
            coll[i].id = id /\ \A j \in DOMAIN coll : coll[j].id = id => j <= i]]

\* self._cap_ub
cap_ub(clusters_, max_capacity) ==
  IF IsNone(max_capacity)
    THEN SumOver([i \in DOMAIN clusters_ |-> clusters_[i].max_capacity],
                 DOMAIN clusters_)
    ELSE Val(max_capacity)

\* DeviceOptimizer(devices, clusters, min_capacity, max_capacity,
\* contention_corr): the instance, or the exception the constructor raises
DeviceOptimizerInit(devices_, clusters_, min_capacity, max_capacity, contention_corr) ==
  LET cl == ById(clusters_)
      pol == [id \in DOMAIN cl |-> energy_bpts(cl[id].energy, contention_corr)]
  IN IF \E id \in DOMAIN cl : pol[id].raised # ""
       THEN [raised |-> "IndexError", value |-> <<>>]
       ELSE [raised |-> "",
             value |-> [devices |-> ById(devices_),
                        clusters |-> cl,
                        cap_lb |-> min_capacity,
                        cap_ub |-> cap_ub(clusters_, max_capacity),
                        x |-> {},
                        n_vms |-> <<>>,
                        energy_bpts |-> [id \in DOMAIN cl |-> pol[id].value]]]

\* --------------------------------------------------------------- _add_vars
\* the keys of self._x: one binary per device and feasible cluster
XKeys(self) ==
  UNION {{<<d, self.devices[d].cluster_ids[j]>> :
            j \in DOMAIN self.devices[d].cluster_ids} :
         d \in DOMAIN self.devices}

\* fault: the upBound of n_vms[cluster_id] is the global cap alone
n_vms_upBound_of_cap(self, c) == self.cap_ub

\* upBound of n_vms[cluster_id], an integer variable with lowBound 0
n_vms_upBound(self, c) == Min(self.clusters[c].max_capacity, self.cap_ub)

\* _add_vars: self._x gets its keys, self._n_vms the upBound of each cluster
add_vars(self) ==
  [self EXCEPT !.x = XKeys(self),
               !.n_vms = [c \in DOMAIN self.clusters |-> n_vms_upBound(self, c)]]

\* the values the bounds of the integer n_vms[c] admit
n_vms_domain(self, c) == 0..(self.n_vms[c] \div One)

\* ------------------------------------------------------------ _add_constrs
\* sum_alloc[device_id]
sum_alloc(self, x, d) ==
  LET K == {k \in self.x : k[1] = d} IN SumOver(x, K)

\* device_<id>_allocated_to_1_cluster, the constraint of one device that
\* has a variable
allocated_to_1_cluster(self, x, d) == sum_alloc(self, x, d) = 1

\* fault: the capacity constraints sum load instead of capacity_load
capacity_cluster_load_of_load(self, x, c) ==
  LET K == {k \in self.x : k[2] = c}
  IN SumOver([k \in K |-> x[k] * self.devices[k[1]].load], K)

\* cluster_loads[cluster_id] of _add_constrs (capacity_load)
capacity_cluster_load(self, x, c) ==
  LET K == {k \in self.x : k[2] = c}
  IN SumOver([k \in K |-> x[k] * self.devices[k[1]].capacity_load], K)

\* cluster_<id>_capacity_constraint
capacity_constraint(self, cluster_load, c) ==
  cluster_load <= self.clusters[c].max_capacity

\* cluster_<id>_vm_count_lb_constraint
vm_count_lb_constraint(self, cluster_load, n, c) ==
  cluster_load <= n * One

\* fault: the vm_count_ub constraint is missing
vm_count_ub_missing(self, cluster_load, n, c) == TRUE

\* fault: the slack of the vm_count_ub constraint is a whole unit
vm_count_ub_slack_of_one(self, cluster_load, n, c) ==
  cluster_load + One >= n * One

\* cluster_<id>_vm_count_ub_constraint
vm_count_ub_constraint(self, cluster_load, n, c) ==
  cluster_load + Slack >= n * One

\* fault: the lower side of the global band is not added to the model
capacity_lb_missing(self, n_vms) == TRUE

\* capacity_lb_constraint
capacity_lb_constraint(self, n_vms) ==
  SumOver(n_vms, DOMAIN n_vms) * One >= self.cap_lb

\* capacity_ub_constraint
capacity_ub_constraint(self, n_vms) ==
  SumOver(n_vms, DOMAIN n_vms) * One <= self.cap_ub

\* the clusters that have a capacity-load expression (some x[d, c] exists)
LoadedClusters(self) == {k[2] : k \in self.x}

\* -------------------------------------------------------------- _add_energy
\* fault: the cpu balance sums capacity_load instead of load
energy_cluster_load_of_capacity(self, x, c) ==
  LET K == {k \in self.x : k[2] = c}
  IN SumOver([k \in K |-> x[k] * self.devices[k[1]].capacity_load], K)

\* cluster_loads[cluster_id] of _add_energy (load)
energy_cluster_load(self, x, c) ==
  LET K == {k \in self.x : k[2] = c}
  IN SumOver([k \in K |-> x[k] * self.devices[k[1]].load], K)

\* fault: the segment weight is not confined to [0, 1]
segment_energy_any_weight(b, i, L) ==
  LET d_cpu == b[i + 1][1] - b[i][1]
  IN IF d_cpu = 0 THEN {b[i][2] * EnergyDen}
     ELSE {b[i][2] * EnergyDen
             + (L - b[i][1]) * (b[i + 1][2] - b[i][2]) * (EnergyDen \div d_cpu)}

\* the energies (over EnergyDen) segment i of the sorted curve b admits at
\* cpu usage L: indicator_i = 1, weight in [0, 1] with l_cpu + w * d_cpu = L
segment_energy(b, i, L) ==
  LET l_cpu == b[i][1]
      l_energy == b[i][2]
      d_cpu == b[i + 1][1] - l_cpu
      d_energy == b[i + 1][2] - l_energy
  IN IF L < l_cpu \/ L > b[i + 1][1] THEN {}
     ELSE IF d_cpu = 0
       THEN {l_energy * EnergyDen, b[i + 1][2] * EnergyDen}
       ELSE {l_energy * EnergyDen + (L - l_cpu) * d_energy * (EnergyDen \div d_cpu)}

\* the values of energy[cluster_id] the piecewise constraints admit at cpu
\* usage L (exactly one segment indicator is 1)
cluster_energy(breakpoints, L) ==
  IF Len(breakpoints) < 2 THEN {0}
  ELSE LET b == sorted(breakpoints)
       IN UNION {segment_energy(b, i, L) : i \in 1..(Len(b) - 1)}

\* ----------------------------------------------------------------- _add_obj
\* fault: the objective sums the energies without the carbon intensities
objective_energy_only(self, energy) == SumOver(energy, DOMAIN energy)

\* sum(carbon_intensity * energy), over EnergyDen
objective(self, energy) ==
  SumOver([c \in DOMAIN energy |->
             self.clusters[c].carbon_intensity * energy[c]], DOMAIN energy)

\* ---------------------------------------------------------------- optimize
\* the binary assignments that satisfy the exactly-one constraints: each
\* constraint is over the variables of one device, so the assignments are
\* the combinations of the per-device ones
RECURSIVE FeasibleXOf(_, _)
FeasibleXOf(self, D) ==
  IF D = {} THEN {[q \in {} |-> 0]}
  ELSE LET d == CHOOSE e \in D : TRUE
           own == {xd \in [{q \in self.x : q[1] = d} -> {0, 1}] :
                     allocated_to_1_cluster(self, xd, d)}
       IN {xd @@ rest : xd \in own, rest \in FeasibleXOf(self, D \ {d})}

FeasibleX(self) == FeasibleXOf(self, {q[1] : q \in self.x})

\* the integer n_vms that satisfy bounds, capacity, linkage and global band
FeasibleN(self, x) ==
  LET C == DOMAIN self.clusters
      cluster_loads == [c \in LoadedClusters(self) |->
                          capacity_cluster_load(self, x, c)]
      \* the values the bounds and the constraints of cluster c alone admit
      own == [c \in C |->
                {n \in n_vms_domain(self, c) :
                   c \in DOMAIN cluster_loads =>
                     /\ capacity_constraint(self, cluster_loads[c], c)
                     /\ vm_count_lb_constraint(self, cluster_loads[c], n, c)
                     /\ vm_count_ub_constraint(self, cluster_loads[c], n, c)}]
  IN {n \in [C -> UNION {own[c] : c \in C}] :
        /\ \A c \in C : n[c] \in own[c]
        /\ capacity_lb_constraint(self, n)
        /\ capacity_ub_constraint(self, n)}

\* the energy values that satisfy the piecewise segment / balance constraints
FeasibleE(self, x) ==
  LET C == DOMAIN self.energy_bpts
      E == [c \in C |->
              cluster_energy(self.energy_bpts[c], energy_cluster_load(self, x, c))]
  IN {e \in [C -> UNION {E[c] : c \in C}] : \A c \in C : e[c] \in E[c]}

\* the feasible points of the MIP
Feasible(self) ==
  UNION {{[x |-> x, n_vms |-> n, energy |-> e] :
            n \in FeasibleN(self, x), e \in FeasibleE(self, x)} :
         x \in FeasibleX(self)}

\* fault: the solve stops at any feasible point
solve_any_feasible(self) ==
  LET F == Feasible(self)
  IN IF F = {} THEN {[status |-> "Infeasible", sol |-> <<>>]}
     ELSE {[status |-> "Optimal", sol |-> <<s>>] : s \in F}

\* self._model.solve(): the terminal status and, when optimal, any one of
\* the feasible points of least objective
solve(self) ==
  LET F == Feasible(self)
  IN IF F = {} THEN {[status |-> "Infeasible", sol |-> <<>>]}
     ELSE LET best == CHOOSE s \in F :
                        \A t \in F : objective(self, s.energy)
                                       <= objective(self, t.energy)
              m == objective(self, best.energy)
          IN {[status |-> "Optimal", sol |-> <<s>>] :
                s \in {t \in F : objective(self, t.energy) = m}}

\* allocs: for every key whose x rounds to 1, allocs[device_id] = cluster_id
\* (a later key of the same device overwrites an earlier one)
allocs(self, x) ==
  LET ids(d) == self.devices[d].cluster_ids
      on(d) == {j \in DOMAIN ids(d) : x[<<d, ids(d)[j]>>] = 1}
  IN [d \in {k[1] : k \in {q \in self.x : x[q] = 1}} |->
        ids(d)[CHOOSE j \in on(d) : \A i \in on(d) : i <= j]]

\* fault: optimize() returns the empty tuple when nothing was allocated
optimize_empty_allocs_as_sentinel(self0) ==
  LET self == add_vars(self0)
  IN IF \E k \in self.x : k[2] \notin DOMAIN self.clusters
       THEN {[raised |-> "KeyError", status |-> "NotSolved", result |-> <<>>]}
       ELSE {IF o.status # "Optimal" \/ \A q \in self.x : o.sol[1].x[q] = 0
               THEN [raised |-> "", status |-> o.status, result |-> <<>>]
               ELSE [raised |-> "", status |-> o.status,
                     result |-> <<allocs(self, o.sol[1].x), o.sol[1].n_vms,
                                  objective(self, o.sol[1].energy)>>] :
             o \in solve(self)}

\* DeviceOptimizer.optimize(): the outcomes of one call: the KeyError of
\* clusters[cluster_id] for an unknown cluster id, the empty tuple when the
\* status is not optimal, else (allocs, n_vms, objective)
optimize(self0) ==
  LET self == add_vars(self0)
  IN IF \E k \in self.x : k[2] \notin DOMAIN self.clusters
       THEN {[raised |-> "KeyError", status |-> "NotSolved", result |-> <<>>]}
       ELSE {IF o.status # "Optimal"
               THEN [raised |-> "", status |-> o.status, result |-> <<>>]
               ELSE [raised |-> "", status |-> o.status,
                     result |-> <<allocs(self, o.sol[1].x), o.sol[1].n_vms,
                                  objective(self, o.sol[1].energy)>>] :
             o \in solve(self)}

\* `if result` on the tuple optimize() returns
Truthy(res) == Len(res) > 0

\* -------------------------------------------------------------- db_adapter
\* Strings are sequences of characters.
\* the separator ':::'
Sep == <<":", ":", ":">>

\* f"{device_id}:::{flavour}"
composite_id(device_id, flavour) == device_id \o Sep \o flavour

\* str.find(':::'): the first position (from 1) of the separator, 0 if none
find_sep(str) ==
  LET at == {i \in 1..(Len(str) - Len(Sep) + 1) :
               SubSeq(str, i, i + Len(Sep) - 1) = Sep}
  IN IF at = {} THEN 0 ELSE CHOOSE i \in at : \A j \in at : i <= j

\* composite_id.split(':::', 1), for a string that holds the separator
split_sep(str) ==
  LET i == find_sep(str)
  IN <<SubSeq(str, 1, i - 1), SubSeq(str, i + Len(Sep), Len(str))>>

\* _db.get_all_device_assignments(): the stored rows
get_all_device_assignments(db_) ==
  {[device_id |-> key[1], flavour |-> key[2],
    cluster_id |-> db_[key].cluster_id, app_req_id |-> db_[key].app_req_id] :
     key \in DOMAIN db_}

\* _db.update_device_assignment(device_id, cluster_id, flavour, app_req_id,
\* app_req_json): the row of (device_id, flavour) gets the values; no row
\* of that key, no change
update_device_assignment(db_, device_id, cluster_id, flavour, app_req_id) ==
  IF <<device_id, flavour>> \in DOMAIN db_
    THEN [db_ EXCEPT ![<<device_id, flavour>>] =
            [cluster_id |-> cluster_id, app_req_id |-> app_req_id]]
    ELSE db_

\* assignment_lookup: the stored rows by composite id
assignment_lookup(all_assignments) ==
  [cid \in {composite_id(a.device_id, a.flavour) : a \in all_assignments} |->
     CHOOSE a \in all_assignments : composite_id(a.device_id, a.flavour) = cid]

RECURSIVE update_loop(_, _, _, _)
\* `for composite_id, new_cluster_id in allocations.items()` over the keys
\* todo, on the state st = [db, updated_count, calls]
update_loop(st, lookup, allocations_, todo) ==
  IF todo = {} THEN st
  ELSE LET cid == CHOOSE c \in todo : TRUE
           new_cluster_id == allocations_[cid]
           parts == split_sep(cid)
           hit == cid \in DOMAIN lookup
                    /\ lookup[cid].cluster_id # new_cluster_id
           st1 == IF find_sep(cid) = 0 \/ ~hit THEN st
                  ELSE [db |-> update_device_assignment(
                                 st.db, parts[1], new_cluster_id, parts[2],
                                 lookup[cid].app_req_id),
                        updated_count |-> st.updated_count + 1,
                        calls |-> Append(st.calls,
                                    [device_id |-> parts[1],
                                     flavour |-> parts[2],
                                     cluster_id |-> new_cluster_id])]
       IN update_loop(st1, lookup, allocations_, todo \ {cid})

\* update_device_cluster_assignments(allocations) on the stored rows db_:
\* the rows after it, the count it returns and the updates it issued
update_device_cluster_assignments(db_, allocations_) ==
  update_loop([db |-> db_, updated_count |-> 0, calls |-> <<>>],
              assignment_lookup(get_all_device_assignments(db_)),
              allocations_, DOMAIN allocations_)

\* ---------------------------------------------------------- cluster_scaler
\* the allocations a scale call is made for: cluster known to n_vms and a
\* composite id with the separator
Scalable(n_vms, allocs_) ==
  {cid \in DOMAIN allocs_ :
     allocs_[cid] \in DOMAIN n_vms /\ find_sep(cid) # 0}

\* cluster_flavour_counts: the number of devices per (cluster_id, flavour)
cluster_flavour_counts(n_vms, allocs_) ==
  LET S == Scalable(n_vms, allocs_)
      key(cid) == <<allocs_[cid], split_sep(cid)[2]>>
  IN [q \in {key(cid) : cid \in S} |->
        Cardinality({cid \in S : key(cid) = q})]

\* the card argument of scale_with_flavour for a (cluster_id, flavour)
target_cardinality(n_vms, counts, key) == counts[key]

\* scale_cluster(cid, card, flavour) where the environment answers with
\* outcome: no template, no EDGE_CLUSTER_FRONTEND, or the POST to
\* {frontend}/{flavour}/v1/scale?target_cardinality={card} accepted or not;
\* the request it issued, if any, and its boolean result
scale_cluster(cluster_id, card, flavour, outcome) ==
  IF outcome \in {"no_template", "no_endpoint"}
    THEN [request |-> None, ok |-> FALSE]
    ELSE [request |-> Some([cluster_id |-> cluster_id, flavour |-> flavour,
                            target_cardinality |-> card]),
          ok |-> outcome = "accepted"]

\* cluster_allocs of the database loop
cluster_allocs(allocs_, c) ==
  [cid \in {q \in DOMAIN allocs_ : allocs_[q] = c} |-> allocs_[cid]]

\* ------------------------------------------------------------------ inputs
\* (load, capacity_load) of a device
LoadPairs ==
  << <<One \div 2, One \div 2>>, <<One, One \div 2>>, <<One, One + One \div 2>> >>

\* cluster_ids of a device
ClusterIdLists == << <<>>, <<1>>, <<2>>, <<1, 2>> >>

\* energy curves: two points, plateau, one point
CurveSet ==
  << << <<0, 100>>, <<2 * One, 200>> >>,
     << <<0, 100>>, <<One, 200>>, <<2 * One, 200>> >>,
     << <<0, 100>> >> >>

\* max_capacity of a cluster
MaxCapacities == <<One, 2 * One>>

\* carbon_intensity of a cluster
CarbonIntensities == <<1, 2>>

NDeviceKinds == Len(LoadPairs) * Len(ClusterIdLists)
DeviceOfKind(id, kind) ==
  LET a == ((kind - 1) \div Len(ClusterIdLists)) + 1
      b == ((kind - 1) % Len(ClusterIdLists)) + 1
  IN Device(id, LoadPairs[a][1], LoadPairs[a][2], ClusterIdLists[b])

NClusterKinds == Len(CurveSet) * Len(MaxCapacities)
ClusterOfKind(id, kind) ==
  LET a == ((kind - 1) \div Len(MaxCapacities)) + 1
      b == ((kind - 1) % Len(MaxCapacities)) + 1
  IN Cluster(id, MaxCapacities[b], CurveSet[a], CarbonIntensities[id])

\* the kinds of up to n devices; device ids are labels, so one
\* representative per multiset of kinds
KindSeqs(n, nkinds) ==
  UNION {{ks \in [1..m -> 1..nkinds] :
            \A i \in 1..m, j \in 1..m : i <= j => ks[i] <= ks[j]} : m \in 0..n}

DeviceInputs ==
  {[i \in DOMAIN ks |-> DeviceOfKind(10 + i, ks[i])] :
     ks \in KindSeqs(MaxDevices, NDeviceKinds)}

\* one or two clusters, ids 1 and 2, carbon intensity by id
ClusterInputs ==
  {[i \in DOMAIN ks |-> ClusterOfKind(i, ks[i])] :
     ks \in UNION {[1..m -> 1..NClusterKinds] : m \in 1..Len(CarbonIntensities)}}

\* arguments of the calls
\* (min_capacity, max_capacity): the defaults, a floor of 2, a cap of 1
CapacityArgs == {<<0, None>>, <<2 * One, None>>, <<0, Some(One)>>}
ContentionCorrs == {None, Some(1), Some(DefaultContentionCorr)}
\* (min_capacity, max_capacity, contention_corr) of DeviceOptimizer(...):
\* every policy under the default capacities, the other capacities under
\* the default policy
SolveArgs ==
  {<<0, None, cc>> : cc \in ContentionCorrs}
    \cup {<<ca[1], ca[2], Some(1)>> : ca \in CapacityArgs}
\* contention_corr of optimize_contention
PenalizedCorrs == {Some(DefaultContentionCorr), Some(1)}

\* ------------------------------------------------------------------- state
VARIABLES
  scale,        \* the frame of the running scale_clusters_and_update_db
  db,           \* the stored device assignments, by (device_id, flavour)
  allocations,  \* the allocation map handed to the running database call
  oned,         \* the infrastructure snapshot the oned client serves
  devices,      \* the caller's device collection
  clusters,     \* the caller's cluster collection
  pc,           \* position of the running call
  call,         \* the top-level call and its arguments
  oc,           \* the arguments of the running optimize_contention
  opt,          \* the DeviceOptimizer instance, <<>> before construction
  status,       \* terminal status of the last solve
  result,       \* what the last DeviceOptimizer.optimize() returned
  log,          \* the solves made by the running call, in order
  new_devices,  \* optimize (sweep): the scenarios
  k,            \* optimize (sweep): index of the scenario being solved
  results,      \* optimize (sweep): the results collected so far
  ret,          \* value returned by the top-level call
  exc           \* the exception the top-level call raised, "" if none

vars == <<scale, db, allocations, oned, devices, clusters, pc, call, oc, opt, status, result, log,
          new_devices, k, results, ret, exc>>

NoCall == [fn |-> "", n_iter |-> 0, device |-> 0]
\* rows_at_call keeps the stored rows as they were when the call was made
NoScale == [n_vms |-> <<>>, allocs |-> <<>>, rows_at_call |-> <<>>,
            futures |-> <<>>, scaled_clusters |-> {}, todo |-> {},
            total_updated |-> 0]
NoArgs == [devices |-> <<>>, min_capacity |-> 0, max_capacity |-> None,
           contention_corr |-> None]

InitWith(devices_, clusters_) ==
  /\ scale = NoScale
  /\ db = <<>>
  /\ allocations = <<>>
  /\ oned = <<>>
  /\ devices = devices_
  /\ clusters = clusters_
  /\ pc = "idle"
  /\ call = NoCall
  /\ oc = NoArgs
  /\ opt = <<>>
  /\ status = "NotSolved"
  /\ result = <<>>
  /\ log = <<>>
  /\ new_devices = <<>>
  /\ k = 0
  /\ results = <<>>
  /\ ret = <<>>
  /\ exc = ""

Init == \E d \in DeviceInputs, c \in ClusterInputs : InitWith(d, c)

\* one device whose capacity_load runs over eighths of 1.0 up to 1.5
AdjustInputs ==
  {<<Device(11, l, (i * One) \div 8, <<1>>)>> :
     l \in {One \div 2, One}, i \in 0..12}

InitAdjust == \E d \in AdjustInputs : InitWith(d, <<>>)

\* one cluster whose curve has up to MaxBpts breakpoints at load_x 0, 1, 2,
\* ... with energies around the 1% tolerance
PolicyEnergies == {0, 100, 101, 102}
PolicyCurves ==
  UNION {{[i \in 1..m |-> <<(i - 1) * One, ys[i]>>] :
            ys \in [1..m -> PolicyEnergies]} : m \in 0..MaxBpts}
PolicyCorrs == {None, Some(1), Some(DefaultContentionCorr), Some(3)}

InitPolicy ==
  \E e \in PolicyCurves :
     InitWith(<<>>, <<Cluster(1, 2 * One, e, 1)>>)

\* curves for the energy constraints: a flat two-point curve, a three-point
\* curve given out of order, a curve that starts above load 0, the
\* three-point plateau curve, and a flat curve that starts above load 0
ShapedCurves ==
  << << <<0, 100>>, <<2 * One, 100>> >>,
     << <<2 * One, 200>>, <<0, 100>>, <<One, 120>> >>,
     << <<One, 100>>, <<2 * One, 200>> >>,
     << <<0, 100>>, <<One, 200>>, <<2 * One, 200>> >>,
     << <<One, 100>>, <<2 * One, 100>> >> >>

\* one or two clusters of max_capacity 2.0 with the shaped curves
InitCurves ==
  \E d \in DeviceInputs :
   \E m \in 1..Len(CarbonIntensities) :
    \E cs \in [1..m -> DOMAIN ShapedCurves] :
      InitWith(d, [i \in 1..m |->
                     Cluster(i, 2 * One, ShapedCurves[cs[i]],
                             CarbonIntensities[i])])

\* the curve given out of order and the plateau curve
FrameCurves == << ShapedCurves[2], ShapedCurves[4] >>

\* one or two clusters of max_capacity 2.0 with these two curves
InitFrame ==
  \E d \in DeviceInputs :
   \E m \in 1..Len(CarbonIntensities) :
    \E cs \in [1..m -> DOMAIN FrameCurves] :
      InitWith(d, [i \in 1..m |->
                     Cluster(i, 2 * One, FrameCurves[cs[i]],
                             CarbonIntensities[i])])

\* capacity_load of a device, on and next to the half and the whole unit
FineCapacityLoads ==
  << One \div 2, (One \div 2) + 1, One, One + 1 >>

\* up to MaxDevices devices of load 0.5 with the fine capacity loads, over
\* one or two clusters of max_capacity 2.0 with the two-point curve
InitLinkage ==
  \E ks \in KindSeqs(MaxDevices, Len(FineCapacityLoads) * 2) :
   \E m \in 1..Len(CarbonIntensities) :
     InitWith([i \in DOMAIN ks |->
                 Device(10 + i, One \div 2,
                        FineCapacityLoads[((ks[i] - 1) \div 2) + 1],
                        IF ks[i] % 2 = 1 THEN <<1>> ELSE <<1, 2>>)],
              [i \in 1..m |->
                 Cluster(i, 2 * One, CurveSet[1], CarbonIntensities[i])])

\* the two clusters of test_optimizer_toy_example (clusters 1 and 2 of
\* test_1)
ToyClusters ==
  << Cluster(1, 2 * One, << <<0, 5>>, <<2 * One, 10>> >>, 500),
     Cluster(2, 4 * One, << <<0, 6>>, <<2 * One, 12>>, <<4 * One, 16>> >>,
             1000) >>

\* the ten devices of test_1, ids 11..20, load = capacity_load = 0.1 .. 1.0,
\* feasible for both clusters (the first two are the toy devices)
TenDevices ==
  [i \in 1..10 |-> Device(10 + i, (i * One) \div 10, (i * One) \div 10, <<1, 2>>)]

RECURSIVE Pick(_, _)
\* the members of list s at the indices S, in list order
Pick(s, S) ==
  IF S = {} THEN <<>>
  ELSE LET i == CHOOSE j \in S : \A h \in S : j <= h
       IN <<s[i]>> \o Pick(s, S \ {i})

\* devices drawn from the ten: every sub-list, the toy pair and the whole
\* list among them
InitToy ==
  \E S \in SUBSET DOMAIN TenDevices : InitWith(Pick(TenDevices, S), ToyClusters)

\* hosts of a snapshot: TOTAL_CPU in percent, the number of VM ids (0 when
\* VMS is absent), the CPU_ENERGY samples when the template has them, and
\* the number of cores over the NUMA nodes.  Two cores with a sample at the
\* contention point; two and a half cores, three NUMA cores, no samples;
\* four cores with no sample near the contention point
HostKinds ==
  << [total_cpu |-> 200, vms |-> 1, cores |-> 2,
      cpu_energy |-> Some(<< <<0, 10>>, <<2 * One, 50>> >>)],
     [total_cpu |-> 250, vms |-> 0, cores |-> 3, cpu_energy |-> None],
     [total_cpu |-> 400, vms |-> 2, cores |-> 3,
      cpu_energy |-> Some(<< <<0, 20>>, <<4 * One, 80>> >>)] >>

\* the host lists of a cluster: 1 .. MaxHosts hosts
HostLists ==
  UNION {{[j \in 1..m |-> HostKinds[ks[j]]] : ks \in [1..m -> DOMAIN HostKinds]} :
         m \in 1..MaxHosts}

\* the snapshot of clusters with the host lists hs, ids 101, 102, ...; the
\* first cluster has no CARBON_INTENSITY in its template (0.0)
Snapshot(hs) ==
  [i \in DOMAIN hs |-> [id |-> 100 + i, hosts |-> hs[i],
                        carbon_intensity |-> (i - 1) * 100]]

\* snapshots of 1 .. MaxPoolClusters clusters
InitPool ==
  \E m \in 1..MaxPoolClusters :
   \E hs \in [1..m -> HostLists] :
     /\ scale = NoScale
     /\ db = <<>>
     /\ allocations = <<>>
     /\ oned = Snapshot(hs)
     /\ devices = <<>>
     /\ clusters = <<>>
     /\ pc = "idle"
     /\ call = NoCall
     /\ oc = NoArgs
     /\ opt = <<>>
     /\ status = "NotSolved"
     /\ result = <<>>
     /\ log = <<>>
     /\ new_devices = <<>>
     /\ k = 0
     /\ results = <<>>
     /\ ret = <<>>
     /\ exc = ""

\* device ids and flavours of the stored rows; one device id holds the
\* separator itself
DeviceIds == {<<"d">>, <<"d", ":", ":", ":", "e">>}
Flavours == {<<"f">>, <<"g">>}
ClusterIds == {1, 2}

\* app_req_id of the row of a key
AppReqId(key) == 100 + Len(key[1]) * 10 + (IF key[2] = <<"f">> THEN 1 ELSE 2)

\* stored rows: up to MaxRecords rows over the keys
StoredInputs ==
  UNION {[K -> [cluster_id : ClusterIds, app_req_id : {0}]] :
           K \in {S \in SUBSET (DeviceIds \X Flavours) :
                    Cardinality(S) <= MaxRecords}}

\* allocation maps: up to MaxAllocations keys among the composite ids of
\* the keys and one id without separator
AllocationInputs ==
  UNION {[K -> ClusterIds] :
           K \in {S \in SUBSET ({composite_id(key[1], key[2]) :
                                   key \in DeviceIds \X Flavours}
                                  \cup {<<"d">>}) :
                    Cardinality(S) <= MaxAllocations}}

InitDb ==
  \E rows \in StoredInputs :
     /\ scale = NoScale
     /\ db = [key \in DOMAIN rows |->
                [rows[key] EXCEPT !.app_req_id = AppReqId(key)]]
     /\ allocations = <<>>
     /\ oned = <<>>
     /\ devices = <<>>
     /\ clusters = <<>>
     /\ pc = "idle"
     /\ call = NoCall
     /\ oc = NoArgs
     /\ opt = <<>>
     /\ status = "NotSolved"
     /\ result = <<>>
     /\ log = <<>>
     /\ new_devices = <<>>
     /\ k = 0
     /\ results = <<>>
     /\ ret = <<>>
     /\ exc = ""

\* n_vms of a scale call: none, both clusters, cluster 1 only
NVmsInputs ==
  {<<>>, [c \in {1, 2} |-> c], [c \in {1} |-> 2]}

\* the stored rows of a scale run: every key at cluster 1, every key at
\* cluster 2, the rows of device d only, one per cluster
ScaleDbs ==
  {[key \in DeviceIds \X Flavours |->
      [cluster_id |-> c, app_req_id |-> AppReqId(key)]] : c \in ClusterIds}
    \cup {[key \in {<<"d">>} \X Flavours |->
             [cluster_id |-> IF key[2] = <<"f">> THEN 1 ELSE 2,
              app_req_id |-> AppReqId(key)]]}

\* what the environment answers to one scale_cluster
ScaleOutcomes == {"no_template", "no_endpoint", "accepted", "rejected"}

InitScale ==
  \E rows \in ScaleDbs :
     /\ scale = NoScale
     /\ db = rows
     /\ allocations = <<>>
     /\ oned = <<>>
     /\ devices = <<>>
     /\ clusters = <<>>
     /\ pc = "idle"
     /\ call = NoCall
     /\ oc = NoArgs
     /\ opt = <<>>
     /\ status = "NotSolved"
     /\ result = <<>>
     /\ log = <<>>
     /\ new_devices = <<>>
     /\ k = 0
     /\ results = <<>>
     /\ ret = <<>>
     /\ exc = ""

\* ------------------------------------------------------------ Device.adjust
\* devices[i].adjust(n_iter) is called
AdjustCall(i, n_iter) ==
  /\ pc = "idle"
  /\ call' = [fn |-> "adjust", n_iter |-> n_iter, device |-> i]
  /\ LET r == adjust(devices[i], n_iter)
     IN /\ pc' = IF r.raised # "" THEN "raised" ELSE "done"
        /\ exc' = r.raised
        /\ ret' = r.value
  /\ UNCHANGED <<scale, db, allocations, oned, devices, clusters, oc, opt, status, result, log, new_devices,
                 k, results>>

\* -------------------------------------------------------------- db_adapter
\* update_device_cluster_assignments(allocations_) is called
UpdateAssignments(allocations_) ==
  /\ pc = "idle"
  /\ allocations' = allocations_
  /\ LET r == update_device_cluster_assignments(db, allocations_)
     IN /\ db' = r.db
        /\ ret' = r.updated_count
        /\ log' = log \o r.calls
  /\ pc' = "updated"
  /\ call' = [fn |-> "update_device_cluster_assignments", n_iter |-> 0,
              device |-> 0]
  /\ UNCHANGED <<scale, oned, devices, clusters, oc, opt, status, result,
                 new_devices, k, results, exc>>

\* update_device_cluster_assignments is called again with the same map
UpdateAgain ==
  /\ pc = "updated"
  /\ LET r == update_device_cluster_assignments(db, allocations)
     IN /\ db' = r.db
        /\ ret' = r.updated_count
        /\ log' = log \o r.calls
  /\ pc' = "updated_again"
  /\ UNCHANGED <<scale, allocations, oned, devices, clusters, call, oc, opt,
                 status, result, new_devices, k, results, exc>>

\* ---------------------------------------------------------- cluster_scaler
\* scale_clusters_and_update_db(n_vms, allocs) is called: the early
\* returns, or one future per (cluster_id, flavour) is submitted
ScaleCall(n_vms, allocs_) ==
  /\ pc = "idle"
  /\ call' = [fn |-> "scale_clusters_and_update_db", n_iter |-> 0,
              device |-> 0]
  /\ LET counts == cluster_flavour_counts(n_vms, allocs_)
         early == n_vms = <<>> \/ DOMAIN counts = {}
     IN /\ scale' = [n_vms |-> n_vms, allocs |-> allocs_,
                     rows_at_call |-> db,
                     futures |-> IF early THEN <<>>
                                 ELSE [key \in DOMAIN counts |->
                                         [state |-> "submitted",
                                          card |-> target_cardinality(
                                                     n_vms, counts, key),
                                          request |-> None, ok |-> FALSE]],
                     scaled_clusters |-> {}, todo |-> {},
                     total_updated |-> 0]
        /\ pc' = IF early THEN "done" ELSE "sc_pool"
        /\ ret' = IF early THEN 0 ELSE ret
  /\ UNCHANGED <<db, allocations, oned, devices, clusters, oc, opt, status,
                 result, log, new_devices, k, results, exc>>

\* a worker thread runs scale_with_flavour(cid, flavour, card)
ScaleWorker(key, outcome) ==
  /\ pc = "sc_pool"
  /\ key \in DOMAIN scale.futures
  /\ scale.futures[key].state = "submitted"
  /\ LET r == scale_cluster(key[1], scale.futures[key].card, key[2], outcome)
     IN scale' = [scale EXCEPT !.futures[key] =
                    [state |-> "done", card |-> @.card,
                     request |-> r.request, ok |-> r.ok]]
  /\ UNCHANGED <<db, allocations, oned, devices, clusters, pc, call, oc, opt,
                 status, result, log, new_devices, k, results, ret, exc>>

\* fault: the loop takes the futures as submitted, and leaves the pool
\* for the database loop without waiting for the ones still running
ScaleCollect_without_waiting(key) ==
  /\ pc = "sc_pool"
  /\ key \in DOMAIN scale.futures
  /\ scale.futures[key].state # "collected"
  /\ LET f == scale.futures[key]
         scaled == IF f.ok THEN scale.scaled_clusters \cup {key[1]}
                   ELSE scale.scaled_clusters
     IN /\ scale' = [scale EXCEPT !.futures[key].state = "collected",
                                  !.scaled_clusters = scaled,
                                  !.todo = scaled]
        /\ pc' = "sc_db"
  /\ UNCHANGED <<db, allocations, oned, devices, clusters, call, oc, opt,
                 status, result, log, new_devices, k, results, ret, exc>>

\* the body of `for future in as_completed(future_map)` for a completed
\* future; after the last one the pool is left for the database loop
ScaleCollect(key) ==
  /\ pc = "sc_pool"
  /\ key \in DOMAIN scale.futures
  /\ scale.futures[key].state = "done"
  /\ LET f == scale.futures[key]
         scaled == IF f.ok THEN scale.scaled_clusters \cup {key[1]}
                   ELSE scale.scaled_clusters
         last == \A q \in DOMAIN scale.futures \ {key} :
                    scale.futures[q].state = "collected"
     IN /\ scale' = [scale EXCEPT !.futures[key].state = "collected",
                                  !.scaled_clusters = scaled,
                                  !.todo = IF last THEN scaled ELSE {}]
        /\ pc' = IF last THEN "sc_db" ELSE "sc_pool"
  /\ UNCHANGED <<db, allocations, oned, devices, clusters, call, oc, opt,
                 status, result, log, new_devices, k, results, ret, exc>>

\* the body of `for cid in scaled_clusters` for one cluster
ScaleUpdateDb(cid) ==
  /\ pc = "sc_db"
  /\ cid \in scale.todo
  /\ LET a == cluster_allocs(scale.allocs, cid)
         r == update_device_cluster_assignments(db, a)
     IN /\ allocations' = a
        /\ db' = r.db
        /\ log' = log \o r.calls
        /\ scale' = [scale EXCEPT !.todo = @ \ {cid},
                                  !.total_updated = @ + r.updated_count]
  /\ UNCHANGED <<oned, devices, clusters, pc, call, oc, opt, status, result,
                 new_devices, k, results, ret, exc>>

\* return total_updated
ScaleReturn ==
  /\ pc = "sc_db"
  /\ scale.todo = {}
  /\ pc' = "done"
  /\ ret' = scale.total_updated
  /\ UNCHANGED <<scale, db, allocations, oned, devices, clusters, call, oc,
                 opt, status, result, log, new_devices, k, results, exc>>

\* ------------------------------------------------------ create_cluster_pool
\* clusters = create_cluster_pool(oned_client)
CreateClusterPool ==
  /\ pc = "idle"
  /\ oned # <<>>
  /\ clusters' = create_cluster_pool(oned)
  /\ ret' = clusters'
  /\ pc' = "done"
  /\ call' = [fn |-> "create_cluster_pool", n_iter |-> 0, device |-> 0]
  /\ UNCHANGED <<scale, db, allocations, oned, devices, oc, opt, status, result, log, new_devices, k,
                 results, exc>>

\* ---------------------------------------------- DeviceOptimizer, single solve
\* opt = DeviceOptimizer(devices, clusters, min_capacity, max_capacity,
\*                       contention_corr)
Construct(min_capacity, max_capacity, contention_corr) ==
  /\ pc = "idle"
  /\ LET r == DeviceOptimizerInit(devices, clusters, min_capacity,
                                  max_capacity, contention_corr)
     IN /\ pc' = IF r.raised # "" THEN "raised" ELSE "built"
        /\ exc' = r.raised
        /\ opt' = IF r.raised # "" THEN <<>> ELSE <<r.value>>
  /\ call' = [fn |-> "DeviceOptimizer", n_iter |-> 0, device |-> 0]
  /\ oc' = [devices |-> devices, min_capacity |-> min_capacity,
            max_capacity |-> max_capacity, contention_corr |-> contention_corr]
  /\ clusters' = clusters_after_init(clusters, contention_corr)
  /\ UNCHANGED <<scale, db, allocations, oned, devices, status, result, log, new_devices, k,
                 results, ret>>

\* the policy applied to its own output: DeviceOptimizer(...) over the
\* clusters carrying the breakpoint lists of opt as their curves, with the
\* same arguments; ret keeps the lists of the first instance
Reapply ==
  /\ pc = "built"
  /\ LET out == opt[1].energy_bpts
         again == [i \in DOMAIN clusters |->
                     Cluster(clusters[i].id, clusters[i].max_capacity,
                             out[clusters[i].id], clusters[i].carbon_intensity)]
         r == DeviceOptimizerInit(devices, again, oc.min_capacity,
                                  oc.max_capacity, oc.contention_corr)
     IN /\ pc' = IF r.raised # "" THEN "raised" ELSE "rebuilt"
        /\ exc' = r.raised
        /\ opt' = IF r.raised # "" THEN <<>> ELSE <<r.value>>
        /\ ret' = out
  /\ call' = [fn |-> "reapply", n_iter |-> 0, device |-> 0]
  /\ UNCHANGED <<scale, db, allocations, oned, devices, clusters, oc, status, result, log, new_devices, k,
                 results>>

\* result = opt.optimize()
Optimize ==
  /\ pc = "built"
  /\ \E o \in optimize(opt[1]) :
       /\ pc' = IF o.raised # "" THEN "raised" ELSE "done"
       /\ exc' = o.raised
       /\ status' = o.status
       /\ result' = o.result
       /\ ret' = o.result
       /\ log' = Append(log, [scenario |-> k,
                              contention_corr |-> oc.contention_corr,
                              devices |-> oc.devices, raised |-> o.raised,
                              status |-> o.status, result |-> o.result])
  /\ UNCHANGED <<scale, db, allocations, oned, devices, clusters, call, oc, opt, new_devices, k, results>>

\* ------------------------------------------------------ optimize_contention
\* one DeviceOptimizer(...).optimize() of optimize_contention: the outcomes
attempt(args, contention_corr) ==
  LET r == DeviceOptimizerInit(args.devices, clusters, args.min_capacity,
                               args.max_capacity, contention_corr)
  IN IF r.raised # ""
       THEN {[raised |-> r.raised, status |-> "NotSolved", result |-> <<>>]}
       ELSE optimize(r.value)

\* the record of one solve: the scenario (0 outside a sweep), the policy,
\* the devices solved for and the outcome
LogEntry(args, contention_corr, o) ==
  [scenario |-> k, contention_corr |-> contention_corr,
   devices |-> args.devices, raised |-> o.raised, status |-> o.status,
   result |-> o.result]

\* where optimize_contention returns to: the caller of the top-level call,
\* or the loop of the sweep
Return(res) ==
  IF call.fn = "optimize"
    THEN /\ pc' = "sw_collect"
         /\ ret' = ret
    ELSE /\ pc' = "done"
         /\ ret' = res

\* optimize_contention(devices, clusters, min_capacity, max_capacity,
\* contention_corr) is called
ContentionCall(min_capacity, max_capacity, contention_corr) ==
  /\ pc = "idle"
  /\ pc' = "oc_strict"
  /\ call' = [fn |-> "optimize_contention", n_iter |-> 0, device |-> 0]
  /\ oc' = [devices |-> devices, min_capacity |-> min_capacity,
            max_capacity |-> max_capacity, contention_corr |-> contention_corr]
  /\ UNCHANGED <<scale, db, allocations, oned, devices, clusters, opt, status, result, log, new_devices, k,
                 results, ret, exc>>

\* fault: the first attempt is already made with the caller's contention_corr
ContentionStrict_penalized_first ==
  /\ pc = "oc_strict"
  /\ \E o \in attempt(oc, oc.contention_corr) :
       /\ log' = Append(log, LogEntry(oc, oc.contention_corr, o))
       /\ status' = o.status
       /\ result' = o.result
       /\ exc' = o.raised
       /\ IF o.raised # "" THEN pc' = "raised" /\ ret' = ret
          ELSE IF Truthy(o.result) THEN Return(o.result)
          ELSE pc' = "oc_pen" /\ ret' = ret
  /\ clusters' = clusters_after_init(clusters, oc.contention_corr)
  /\ UNCHANGED <<scale, db, allocations, oned, devices, call, oc, opt, new_devices, k, results>>

\* the strict attempt: contention_corr=None; `if result := opt.optimize():
\* return result`
ContentionStrict ==
  /\ pc = "oc_strict"
  /\ \E o \in attempt(oc, None) :
       /\ log' = Append(log, LogEntry(oc, None, o))
       /\ status' = o.status
       /\ result' = o.result
       /\ exc' = o.raised
       /\ IF o.raised # "" THEN pc' = "raised" /\ ret' = ret
          ELSE IF Truthy(o.result) THEN Return(o.result)
          ELSE pc' = "oc_pen" /\ ret' = ret
  /\ clusters' = clusters_after_init(clusters, None)
  /\ UNCHANGED <<scale, db, allocations, oned, devices, call, oc, opt, new_devices, k, results>>

\* the retry with the caller's contention_corr; its result is returned
ContentionPenalized ==
  /\ pc = "oc_pen"
  /\ \E o \in attempt(oc, oc.contention_corr) :
       /\ log' = Append(log, LogEntry(oc, oc.contention_corr, o))
       /\ status' = o.status
       /\ result' = o.result
       /\ exc' = o.raised
       /\ IF o.raised # "" THEN pc' = "raised" /\ ret' = ret
          ELSE Return(o.result)
  /\ clusters' = clusters_after_init(clusters, oc.contention_corr)
  /\ UNCHANGED <<scale, db, allocations, oned, devices, call, oc, opt, new_devices, k, results>>

\* ---------------------------------------------------------- optimize (sweep)
\* list(list(row) for row in zip(*new_devices))
transpose(lists) ==
  IF lists = <<>> THEN <<>>
  ELSE LET n == CHOOSE m \in {Len(lists[i]) : i \in DOMAIN lists} :
                  \A i \in DOMAIN lists : m <= Len(lists[i])
       IN [j \in 1..n |-> [i \in DOMAIN lists |-> lists[i][j]]]

\* optimize(clusters, devices, n_iter) is called: the variants of every
\* device, transposed into scenarios
SweepCall(n_iter) ==
  /\ pc = "idle"
  /\ call' = [fn |-> "optimize", n_iter |-> n_iter, device |-> 0]
  /\ LET adj == [i \in DOMAIN devices |-> adjust(devices[i], n_iter)]
     IN IF \E i \in DOMAIN adj : adj[i].raised # ""
          THEN /\ pc' = "raised"
               /\ exc' = "ValueError"
               /\ new_devices' = <<>>
          ELSE /\ pc' = "sw_loop"
               /\ exc' = ""
               /\ new_devices' = transpose([i \in DOMAIN adj |-> adj[i].value])
  /\ k' = 1
  /\ results' = <<>>
  /\ UNCHANGED <<scale, db, allocations, oned, devices, clusters, oc, opt, status, result, log, ret>>

\* for devices_ in new_devices: optimize_contention(devices_, clusters,
\* msg=False); after the last scenario, return results
SweepNext ==
  /\ pc = "sw_loop"
  /\ IF k <= Len(new_devices)
       THEN /\ pc' = "oc_strict"
            /\ oc' = [devices |-> new_devices[k], min_capacity |-> 0,
                      max_capacity |-> None,
                      contention_corr |-> Some(DefaultContentionCorr)]
            /\ ret' = ret
       ELSE /\ pc' = "done"
            /\ oc' = oc
            /\ ret' = results
  /\ UNCHANGED <<scale, db, allocations, oned, devices, clusters, call, opt, status, result, log,
                 new_devices, k, results, exc>>

\* fault: the sweep stops at the first scenario without a solution
SweepCollect_stops_at_failure ==
  /\ pc = "sw_collect"
  /\ results' = IF Truthy(result) THEN Append(results, result) ELSE results
  /\ k' = k + 1
  /\ IF Truthy(result)
       THEN pc' = "sw_loop" /\ ret' = ret
       ELSE pc' = "done" /\ ret' = results
  /\ UNCHANGED <<scale, db, allocations, oned, devices, clusters, call, oc, opt, status, result, log,
                 new_devices, exc>>

\* if result: results.append(result)
SweepCollect ==
  /\ pc = "sw_collect"
  /\ results' = IF Truthy(result) THEN Append(results, result) ELSE results
  /\ k' = k + 1
  /\ pc' = "sw_loop"
  /\ UNCHANGED <<scale, db, allocations, oned, devices, clusters, call, oc, opt, status, result, log,
                 new_devices, ret, exc>>

NextSolve ==
  \/ \E a \in SolveArgs : Construct(a[1], a[2], a[3])
  \/ Optimize

NextContention ==
  \/ \E ca \in CapacityArgs, cc \in PenalizedCorrs :
       ContentionCall(ca[1], ca[2], cc)
  \/ ContentionStrict
  \/ ContentionPenalized

NextSweep ==
  \/ \E n \in (-1)..MaxNIter : SweepCall(n)
  \/ \E i \in DOMAIN devices, n \in (-1)..MaxNIter : AdjustCall(i, n)
  \/ SweepNext
  \/ ContentionStrict
  \/ ContentionPenalized
  \/ SweepCollect

NextAdjust == \E i \in DOMAIN devices, n \in (-1)..MaxAdjustN : AdjustCall(i, n)

NextDb ==
  \/ \E a \in AllocationInputs : UpdateAssignments(a)
  \/ UpdateAgain

NextScale ==
  \/ \E n \in NVmsInputs, a \in AllocationInputs : ScaleCall(n, a)
  \/ \E key \in DOMAIN scale.futures, o \in ScaleOutcomes :
       ScaleWorker(key, o)
  \/ \E key \in DOMAIN scale.futures : ScaleCollect(key)
  \/ \E cid \in scale.todo : ScaleUpdateDb(cid)
  \/ ScaleReturn

NextPolicy ==
  \/ \E cc \in PolicyCorrs : Construct(0, None, cc)
  \/ Reapply

NextCurves ==
  \/ \E cc \in ContentionCorrs : Construct(0, None, cc)
  \/ Optimize

NextLinkage ==
  \/ \E ca \in CapacityArgs : Construct(ca[1], ca[2], Some(1))
  \/ Optimize

NextFrame ==
  \/ NextCurves
  \/ NextContention
  \/ NextSweep

\* DeviceOptimizer(devices=devices, clusters=clusters, msg=False)
NextToy ==
  \/ Construct(0, None, Some(1))
  \/ Optimize

\* DeviceOptimizer(...) and opt.optimize()
Spec == Init /\ [][NextSolve]_vars

\* optimize_contention(...)
SpecContention == Init /\ [][NextContention]_vars

\* optimize(clusters, devices, n_iter) and Device.adjust(n_iter)
SpecSweep == Init /\ [][NextSweep]_vars

\* Device.adjust(n_iter) over a range of capacity loads
SpecAdjust == InitAdjust /\ [][NextAdjust]_vars

\* the breakpoint policy of DeviceOptimizer(...) over a range of curves
SpecPolicy == InitPolicy /\ [][NextPolicy]_vars

\* DeviceOptimizer(...) and opt.optimize() over the shaped curves
SpecCurves == InitCurves /\ [][NextCurves]_vars

\* DeviceOptimizer(...) and opt.optimize() over the fine capacity loads
SpecLinkage == InitLinkage /\ [][NextLinkage]_vars

\* any one of the entry points over the out-of-order and plateau curves
SpecFrame == InitFrame /\ [][NextFrame]_vars

\* the toy example: the two toy clusters and devices drawn from the ten
SpecToy == InitToy /\ [][NextToy]_vars

\* update_device_cluster_assignments(allocations) over stored rows
SpecDb == InitDb /\ [][NextDb]_vars

\* scale_clusters_and_update_db(n_vms, allocs) with its worker threads
SpecScale == InitScale /\ [][NextScale]_vars

\* create_cluster_pool(oned_client) over a range of snapshots
SpecPool == InitPool /\ [][CreateClusterPool]_vars

\* ================================================================== claims
\* the devices the last solve was built from, by id
SolvedDevice(d) ==
  oc.devices[CHOOSE i \in DOMAIN oc.devices : oc.devices[i].id = d]

\* the devices result allocates to cluster c
AllocatedTo(c) == {d \in DOMAIN result[1] : result[1][d] = c}

\* sum of capacity_load of the devices result allocates to cluster c
CapacityLoadOn(c) ==
  SumOver([d \in AllocatedTo(c) |-> SolvedDevice(d).capacity_load],
          AllocatedTo(c))

\* C1 (as claimed): whenever optimize() returns a result, every input
\* device appears in allocations, with a cluster of its cluster_ids
C1_EveryDeviceAllocated ==
  (pc = "done" /\ Truthy(result)) =>
    \A i \in DOMAIN devices :
      /\ devices[i].id \in DOMAIN result[1]
      /\ result[1][devices[i].id] \in Range(devices[i].cluster_ids)

\* C2: in every result, the capacity_load allocated to a cluster does not
\* exceed the cluster's max_capacity
C2_CapacityRespected ==
  Truthy(result) =>
    \A i \in DOMAIN clusters :
      CapacityLoadOn(clusters[i].id) <= clusters[i].max_capacity

C2_Witness ==
  /\ pc = "done"
  /\ Truthy(result)
  /\ \E i \in DOMAIN clusters :
       /\ Cardinality(AllocatedTo(clusters[i].id)) >= 2
       /\ CapacityLoadOn(clusters[i].id) = clusters[i].max_capacity

\* C3: in every result, vm_counts[c] of a cluster with an allocated device
\* is the smallest integer >= the capacity_load allocated to it
C3_VmCountIsCeiling ==
  Truthy(result) =>
    \A i \in DOMAIN clusters :
      LET c == clusters[i].id
      IN AllocatedTo(c) # {} =>
           /\ result[2][c] * One >= CapacityLoadOn(c)
           /\ (result[2][c] - 1) * One < CapacityLoadOn(c)

C3_Witness ==
  /\ pc = "done"
  /\ Truthy(result)
  /\ \E i \in DOMAIN clusters :
       /\ AllocatedTo(clusters[i].id) # {}
       /\ CapacityLoadOn(clusters[i].id) % One # 0
       /\ result[2][clusters[i].id] = 2

\* the carbon charged for the cluster energies e: sum over the clusters of
\* carbon_intensity times the cluster's energy (over EnergyDen)
Charge(e) ==
  SumOver([i \in DOMAIN clusters |->
             clusters[i].carbon_intensity * e[clusters[i].id]],
          DOMAIN clusters)

\* the model the instance opt builds its constraints over
BuiltModel == add_vars(opt[1])

C5_StrictThenPenalized ==
  call.fn = "optimize_contention" =>
    /\ Len(log) <= 2
    /\ Len(log) >= 1 => IsNone(log[1].contention_corr)
    /\ Len(log) = 2 =>
         /\ log[1].raised = ""
         /\ ~Truthy(log[1].result)
         /\ log[2].contention_corr = oc.contention_corr
    /\ pc = "done" =>
         /\ Len(log) >= 1
         /\ ret = log[Len(log)].result
         /\ Truthy(log[1].result) => Len(log) = 1
         /\ ~Truthy(ret) => (Len(log) = 2 /\ \A i \in 1..2 : ~Truthy(log[i].result))

C5_Witness ==
  /\ call.fn = "optimize_contention"
  /\ pc = "done"
  /\ Len(log) = 2
  /\ Truthy(ret)

\* C6: optimize() returns the empty tuple exactly when the status is not
\* optimal and the triple otherwise; an infeasible model is returned as
\* data, not raised; every triple is truthy, the empty tuple is not
C6_SentinelIffNotOptimal ==
  call.fn = "DeviceOptimizer" =>
    /\ pc = "done" =>
         /\ status # "Optimal" <=> result = <<>>
         /\ status = "Optimal" => Len(result) = 3
         /\ Truthy(result) <=> status = "Optimal"
    /\ status = "Infeasible" => (pc = "done" /\ exc = "")
    /\ pc = "raised" => status = "NotSolved"

C6_Witness ==
  /\ call.fn = "DeviceOptimizer"
  /\ pc = "done"
  /\ status = "Optimal"
  /\ devices # <<>>
  /\ DOMAIN result[1] = {}
  /\ Truthy(result)

\* scenario j of a sweep: the j-th adjust variant of every device
SweepScenario(j) ==
  [i \in DOMAIN devices |-> adjust(devices[i], call.n_iter).value[j]]

\* the solves made for scenario j, and the last of them
SolvesOf(j) == {i \in DOMAIN log : log[i].scenario = j}
FinalOf(j) == log[CHOOSE i \in SolvesOf(j) : \A h \in SolvesOf(j) : h <= i]

RECURSIVE SolvedFrom(_, _)
\* the results of the solved scenarios j..n, in scenario order
SolvedFrom(j, n) ==
  IF j > n THEN <<>>
  ELSE (IF SolvesOf(j) # {} /\ Truthy(FinalOf(j).result)
          THEN <<FinalOf(j).result>> ELSE <<>>) \o SolvedFrom(j + 1, n)

\* a finished sweep built n_iter scenarios, solved each of them in order and
\* returned the results of the solved ones
SweepRanAll ==
  LET n == call.n_iter
  IN /\ Len(new_devices) = n
     /\ \A j \in 1..n :
          /\ new_devices[j] = SweepScenario(j)
          /\ SolvesOf(j) # {}
          /\ \A i \in SolvesOf(j) : log[i].devices = new_devices[j]
     /\ \A a \in DOMAIN log, b \in DOMAIN log :
          a <= b => log[a].scenario <= log[b].scenario
     /\ ret = SolvedFrom(1, n)

\* C7 (as claimed): a sweep with n_iter >= 2 builds scenarios 0..n_iter-1,
\* solves each in order and returns the results of the solved ones
C7_SweepSolvesEveryScenario ==
  (call.fn = "optimize" /\ call.n_iter >= 2 /\ pc = "done") => SweepRanAll

\* C7 (amended): as claimed when there is at least one device; with no
\* device no scenario is built, nothing is solved and [] is returned
C7_SweepOfDevices ==
  (call.fn = "optimize" /\ call.n_iter >= 2 /\ pc = "done") =>
    IF devices # <<>> THEN SweepRanAll
    ELSE new_devices = <<>> /\ log = <<>> /\ ret = <<>>

C7_Witness ==
  /\ call.fn = "optimize"
  /\ call.n_iter >= 2
  /\ pc = "done"
  /\ devices # <<>>
  /\ \E i \in 1..call.n_iter, j \in 1..call.n_iter :
       /\ i < j
       /\ ~Truthy(FinalOf(i).result)
       /\ Truthy(FinalOf(j).result)
       /\ ret = <<FinalOf(j).result>>

\* C8 (as claimed): adjust(n), n >= 2, of a device with capacity_load
\* p <= 1 returns n devices, the first with capacity_load p, the last with
\* 1.0, non-decreasing, with steps of (1-p)/(n-1) (to within the rounding of
\* one step)
C8_AdjustRampsToOne ==
  (call.fn = "adjust" /\ pc = "done" /\ call.n_iter >= 2
     /\ devices[call.device].capacity_load <= One) =>
    LET n == call.n_iter
        p == devices[call.device].capacity_load
    IN /\ Len(ret) = n
       /\ ret[1].capacity_load = p
       /\ ret[n].capacity_load = One
       /\ \A j \in 1..(n - 1) :
            LET step == ret[j + 1].capacity_load - ret[j].capacity_load
            IN /\ step >= 0
               /\ Abs(step * (n - 1) - (One - p)) <= n - 1

\* C9: adjust(n_iter) with n_iter < 2 raises ValueError and returns
\* nothing; a sweep over at least one device with n_iter < 2 raises it
\* before any scenario is built or solved
C9_NIterBelowTwoRejected ==
  /\ (call.fn = "adjust" /\ call.n_iter < 2) =>
       (pc = "raised" /\ exc = "ValueError" /\ ret = <<>>)
  /\ (call.fn = "optimize" /\ call.n_iter < 2 /\ devices # <<>>) =>
       (pc = "raised" /\ exc = "ValueError" /\ log = <<>>
          /\ new_devices = <<>> /\ ret = <<>>)

C9_Witness ==
  /\ call.fn = "optimize"
  /\ call.n_iter < 1
  /\ devices # <<>>
  /\ pc = "raised"
  /\ exc = "ValueError"

\* the last two energy values of a curve are within 1% of the larger one
Plateau(e) ==
  /\ Len(e) >= 2
  /\ 100 * Abs(e[Len(e)][2] - e[Len(e) - 1][2])
       <= Max(Abs(e[Len(e)][2]), Abs(e[Len(e) - 1][2]))

\* the breakpoint list the policy table gives for curve e
PolicyTable(e, contention_corr) ==
  IF ~Plateau(e) THEN e
  ELSE IF IsNone(contention_corr) THEN SubSeq(e, 1, Len(e) - 1)
  ELSE IF Val(contention_corr) = 1 THEN e
  ELSE [e EXCEPT ![Len(e)] = <<e[Len(e)][1],
                               e[Len(e)][2] * Val(contention_corr)>>]

\* C10: the breakpoint list a constructed model uses for a cluster is the
\* one the policy table gives for the cluster's curve and contention_corr
C10_BreakpointPolicy ==
  pc = "built" =>
    \A i \in DOMAIN clusters :
      opt[1].energy_bpts[clusters[i].id]
        = PolicyTable(clusters[i].energy, oc.contention_corr)

C10_Witness ==
  /\ pc = "built"
  /\ oc.contention_corr = Some(3)
  /\ \E i \in DOMAIN clusters :
       LET e == clusters[i].energy
           b == opt[1].energy_bpts[clusters[i].id]
       IN /\ Len(e) = 3
          /\ e[3][2] # e[2][2]
          /\ e[3][2] # 0
          /\ b[3] = <<e[3][1], 3 * e[3][2]>>
          /\ b[2] = e[2]

\* C11 (as claimed): the 1.0 policy returns every curve unchanged, and the
\* null policy applied to the output of the null policy returns that output
\* unchanged
C11_PolicyIdempotent ==
  /\ (pc = "built" /\ oc.contention_corr = Some(1)) =>
       \A i \in DOMAIN clusters :
         opt[1].energy_bpts[clusters[i].id] = clusters[i].energy
  /\ (call.fn = "reapply" /\ IsNone(oc.contention_corr)) =>
       /\ pc = "rebuilt"
       /\ \A i \in DOMAIN clusters :
            opt[1].energy_bpts[clusters[i].id] = ret[clusters[i].id]

\* C11 (amended): the 1.0 policy returns every curve unchanged; the null
\* policy applied to its own output returns it unchanged when the output
\* has at least two breakpoints and does not end in a plateau; otherwise it
\* drops one more breakpoint, or raises IndexError when fewer than two
\* breakpoints are left
C11_NullPolicyStableOffPlateau ==
  /\ (pc = "built" /\ oc.contention_corr = Some(1)) =>
       \A i \in DOMAIN clusters :
         opt[1].energy_bpts[clusters[i].id] = clusters[i].energy
  /\ (call.fn = "reapply" /\ IsNone(oc.contention_corr)) =>
       \A i \in DOMAIN clusters :
         LET out == ret[clusters[i].id]
         IN IF Len(out) < 2 THEN pc = "raised" /\ exc = "IndexError"
            ELSE pc = "rebuilt"
                 /\ opt[1].energy_bpts[clusters[i].id]
                      = (IF Plateau(out) THEN SubSeq(out, 1, Len(out) - 1)
                         ELSE out)

C11_Witness ==
  /\ call.fn = "reapply"
  /\ IsNone(oc.contention_corr)
  /\ pc = "rebuilt"
  /\ \E i \in DOMAIN clusters :
       /\ Len(clusters[i].energy) = 3
       /\ Len(ret[clusters[i].id]) = 2
       /\ opt[1].energy_bpts[clusters[i].id] = ret[clusters[i].id]

\* sum of vm_counts over all clusters of result
TotalVms == SumOver(result[2], DOMAIN result[2])

\* C12: in every result the sum of vm_counts lies between min_capacity and
\* max_capacity, max_capacity being the sum of the clusters' max_capacity
\* when the caller passes none
C12_GlobalCapacityBand ==
  (call.fn = "DeviceOptimizer" /\ Truthy(result)) =>
    /\ DOMAIN result[2] = {clusters[i].id : i \in DOMAIN clusters}
    /\ TotalVms * One >= oc.min_capacity
    /\ TotalVms * One
         <= (IF IsNone(oc.max_capacity)
               THEN SumOver([i \in DOMAIN clusters |-> clusters[i].max_capacity],
                            DOMAIN clusters)
               ELSE Val(oc.max_capacity))

C12_Witness ==
  /\ call.fn = "DeviceOptimizer"
  /\ pc = "done"
  /\ Truthy(result)
  /\ oc.min_capacity = 2 * One
  /\ TotalVms = 2
  /\ \E i \in DOMAIN clusters :
       /\ AllocatedTo(clusters[i].id) # {}
       /\ CapacityLoadOn(clusters[i].id) <= One
  /\ \E i \in DOMAIN clusters :
       /\ AllocatedTo(clusters[i].id) = {}
       /\ result[2][clusters[i].id] = 1

\* sum of load of the devices result allocates to cluster c
LoadOn(c) ==
  SumOver([d \in AllocatedTo(c) |-> SolvedDevice(d).load], AllocatedTo(c))

\* the loads the devices could put on a cluster of capacity cap: the sums
\* of the sub-collections that fit
FittingLoads(cap) ==
  {t \in {SumOver([i \in S |-> devices[i].load], S) : S \in SUBSET DOMAIN devices} :
     t <= cap}

\* C13: on the toy clusters, for devices drawn from the ten, optimize()
\* returns a result that allocates every device, keeps the load of each
\* cluster within its max_capacity, and gives the lower-carbon cluster 1 as
\* much load as fits: no device on cluster 2 fits on cluster 1 beside its
\* load, and no sub-collection that fits on cluster 1 carries more load
C13_ToyPrefersLowerCarbon ==
  (call.fn = "DeviceOptimizer" /\ pc \in {"done", "raised"}) =>
    /\ pc = "done"
    /\ Truthy(result)
    /\ \A i \in DOMAIN devices : devices[i].id \in DOMAIN result[1]
    /\ \A i \in DOMAIN clusters : LoadOn(clusters[i].id) <= clusters[i].max_capacity
    /\ \A d \in AllocatedTo(2) :
         LoadOn(1) + SolvedDevice(d).load > clusters[1].max_capacity
    /\ \A t \in FittingLoads(clusters[1].max_capacity) : t <= LoadOn(1)

C13_Witness ==
  /\ call.fn = "DeviceOptimizer"
  /\ pc = "done"
  /\ devices = TenDevices
  /\ Truthy(result)
  /\ LoadOn(1) = clusters[1].max_capacity
  /\ Cardinality(AllocatedTo(2)) >= 6

\* the clusters whose energy curve has fewer than 2 breakpoints
ShortCurveClusters ==
  {clusters[i].id : i \in {j \in DOMAIN clusters : Len(clusters[j].energy) < 2}}

\* C14 (as claimed): under every contention_corr a cluster whose curve has
\* fewer than 2 breakpoints is accepted by the constructor and the solve
\* (no IndexError), and every point of the model charges it energy 0
C14_ShortCurveAccepted ==
  (call.fn = "DeviceOptimizer" /\ ShortCurveClusters # {}) =>
    /\ exc # "IndexError"
    /\ pc \in {"built", "done"} =>
         \A c \in ShortCurveClusters :
           /\ Len(opt[1].energy_bpts[c]) < 2
           /\ \A t \in Feasible(BuiltModel) : t.energy[c] = 0

\* the aggregates of one snapshot cluster over its own hosts: the least
\* first-sample energy, the NUMA cores, the energy at the contention sample
\* of each host, and floor(cpu_total) at each host
OwnCurve(cluster) ==
  LET hs == cluster.hosts
      cpu(j) == SumOver([h \in 1..j |-> hs[h].total_cpu * (One \div 100)], 1..j)
      first(j) == IF IsNone(hs[j].cpu_energy) THEN 0
                  ELSE Val(hs[j].cpu_energy)[1][2]
      at_cont(j) ==
        IF IsNone(hs[j].cpu_energy) THEN 0
        ELSE LET e == Val(hs[j].cpu_energy)
                 near == {q \in DOMAIN e :
                            Abs(e[q][1] - hs[j].cores * One) <= One \div 2}
             IN IF near = {} THEN 0
                ELSE e[CHOOSE q \in near : \A r \in near : q <= r][2]
      interc_energy == CHOOSE m \in {first(j) : j \in DOMAIN hs} :
                         \A j \in DOMAIN hs : m <= first(j)
      cont_total == SumOver([j \in DOMAIN hs |-> hs[j].cores * One], DOMAIN hs)
      cont_energy == SumOver([j \in DOMAIN hs |-> at_cont(j)], DOMAIN hs)
      cap_total == SumOver([j \in DOMAIN hs |-> (cpu(j) \div One) * One],
                           DOMAIN hs)
  IN << <<0, interc_energy>>, <<cont_total, cont_energy>>,
        <<cap_total, cont_energy>> >>

\* C15 (as claimed): create_cluster_pool gives every cluster of the
\* snapshot the three-point curve of the aggregates over its own hosts,
\* whatever clusters precede it
C15_CurveOfOwnHosts ==
  (call.fn = "create_cluster_pool" /\ pc = "done") =>
    /\ Len(clusters) = Len(oned)
    /\ \A i \in DOMAIN oned :
         /\ clusters[i].id = oned[i].id
         /\ clusters[i].energy = OwnCurve(oned[i])

\* the stored keys whose stored cluster differs from the cluster the map
\* allocates to the key's composite id
RowsToChange(db_, a) ==
  {key \in DOMAIN db_ :
     /\ composite_id(key[1], key[2]) \in DOMAIN a
     /\ db_[key].cluster_id # a[composite_id(key[1], key[2])]}

\* C16 (as claimed): a call changes exactly the stored rows whose cluster
\* differs from the allocated one, sets each to the allocated cluster,
\* leaves every other row as it was and returns the number of rows it
\* changed; the call repeated with the same map changes nothing and
\* returns 0
C16_UpdatesExactlyTheChanged ==
  [][(pc' \in {"updated", "updated_again"} /\ pc' # pc) =>
       LET a == allocations'
           changed == RowsToChange(db, a)
       IN /\ DOMAIN db' = DOMAIN db
          /\ \A key \in DOMAIN db :
               db'[key] = IF key \in changed
                            THEN [db[key] EXCEPT !.cluster_id =
                                    a[composite_id(key[1], key[2])]]
                            ELSE db[key]
          /\ ret' = Cardinality(changed)
          /\ pc' = "updated_again" => (db' = db /\ ret' = 0)]_vars

\* C17 (as claimed): every scale request issued for a cluster c carries the
\* target cardinality n_vms[c]
C17_RequestCarriesNVms ==
  call.fn = "scale_clusters_and_update_db" =>
    \A key \in DOMAIN scale.futures :
      LET f == scale.futures[key]
      IN ~IsNone(f.request) =>
           /\ Val(f.request).cluster_id = key[1]
           /\ Val(f.request).target_cardinality = scale.n_vms[key[1]]

\* the clusters with a scale call that returned True
ScaledOk ==
  {key[1] : key \in {q \in DOMAIN scale.futures : scale.futures[q].ok}}

RECURSIVE PersistFor(_, _)
\* the stored rows and the number of updates after the assignments of the
\* clusters S were stored, one cluster after the other
PersistFor(st, S) ==
  IF S = {} THEN st
  ELSE LET c == CHOOSE e \in S : TRUE
           r == update_device_cluster_assignments(
                  st.db, cluster_allocs(scale.allocs, c))
       IN PersistFor([db |-> r.db, count |-> st.count + r.updated_count],
                     S \ {c})

ActiveCurve(c) == sorted(opt[1].energy_bpts[c])

\* the energy (over EnergyDen) of curve b at load L by linear interpolation
\* between the two breakpoints around L
InterpolatedAt(b, L) ==
  LET i == CHOOSE j \in 1..(Len(b) - 1) : b[j][1] <= L /\ L <= b[j + 1][1]
  IN b[i][2] * EnergyDen
       + (L - b[i][1]) * (b[i + 1][2] - b[i][2])
           * (EnergyDen \div (b[i + 1][1] - b[i][1]))

\* the energy charged to cluster c by result: the interpolation of its
\* active curve at the load allocated to it, 0 for a curve of fewer than 2
\* active breakpoints
ChargedEnergy(c) ==
  IF Len(ActiveCurve(c)) < 2 THEN 0
  ELSE InterpolatedAt(ActiveCurve(c), LoadOn(c))

\* C19: in every result the objective charges every cluster of at least 2
\* active breakpoints the interpolation of its sorted active curve at the
\* sum of load (not capacity_load) of the devices allocated to it, a
\* cluster without devices the energy of its curve at load 0
C19_EnergyInterpolatesLoad ==
  (call.fn = "DeviceOptimizer" /\ pc = "done" /\ Truthy(result)) =>
    /\ \A i \in DOMAIN clusters :
         Len(ActiveCurve(clusters[i].id)) >= 2 =>
           /\ LoadOn(clusters[i].id) >= ActiveCurve(clusters[i].id)[1][1]
           /\ AllocatedTo(clusters[i].id) = {} =>
                ChargedEnergy(clusters[i].id)
                  = ActiveCurve(clusters[i].id)[1][2] * EnergyDen
    /\ result[3]
         = SumOver([i \in DOMAIN clusters |->
                      clusters[i].carbon_intensity
                        * ChargedEnergy(clusters[i].id)], DOMAIN clusters)

C19_Witness ==
  /\ call.fn = "DeviceOptimizer"
  /\ pc = "done"
  /\ Truthy(result)
  /\ \E i \in DOMAIN clusters, j \in DOMAIN clusters :
       /\ Len(ActiveCurve(clusters[i].id)) >= 2
       /\ AllocatedTo(clusters[i].id) = {}
       /\ Len(ActiveCurve(clusters[j].id)) >= 2
       /\ LoadOn(clusters[j].id) # CapacityLoadOn(clusters[j].id)
       /\ LoadOn(clusters[j].id) % One # 0

\* C20 (as claimed): under contention_corr None, in every result a cluster
\* whose curve ends in a plateau carries no more load than the load_x of
\* the curve's second-to-last breakpoint
C20_NoLoadInPlateau ==
  (call.fn = "DeviceOptimizer" /\ pc = "done" /\ Truthy(result)
     /\ IsNone(oc.contention_corr)) =>
    \A i \in DOMAIN clusters :
      LET e == clusters[i].energy
      IN Plateau(e) => LoadOn(clusters[i].id) <= e[Len(e) - 1][1]

\* C21 (as claimed): the VM-count linkage admits n_vms[c] one unit above a
\* cluster_load that is exactly an integer
C21_ExtraUnitPermitted ==
  (call.fn = "DeviceOptimizer" /\ pc = "done" /\ Truthy(result)) =>
    \A c \in LoadedClusters(BuiltModel) :
      LET L == CapacityLoadOn(c)
      IN L % One = 0 =>
           /\ vm_count_lb_constraint(BuiltModel, L, (L \div One) + 1, c)
           /\ vm_count_ub_constraint(BuiltModel, L, (L \div One) + 1, c)

\* C21 (amended): for a cluster_load that is exactly an integer the linkage
\* admits that integer and no other, and the result's vm_counts[c] is it
C21_IntegralLoadExact ==
  (call.fn = "DeviceOptimizer" /\ pc = "done" /\ Truthy(result)) =>
    \A c \in LoadedClusters(BuiltModel) :
      LET L == CapacityLoadOn(c)
      IN L % One = 0 =>
           /\ \A n \in 0..((L \div One) + 2) :
                (/\ vm_count_lb_constraint(BuiltModel, L, n, c)
                 /\ vm_count_ub_constraint(BuiltModel, L, n, c))
                  <=> n * One = L
           /\ result[2][c] * One = L

C21_Witness ==
  /\ call.fn = "DeviceOptimizer"
  /\ pc = "done"
  /\ Truthy(result)
  /\ \E c \in LoadedClusters(BuiltModel) :
       /\ Cardinality(AllocatedTo(c)) >= 2
       /\ CapacityLoadOn(c) = One
       /\ result[2][c] = 1
       /\ result[2][c] + 1 <= n_vms_upBound(BuiltModel, c) \div One

\* C22: in every result vm_counts has one entry per input cluster, each a
\* natural number not above the cluster's max_capacity nor the max_capacity
\* argument
C22_VmCountsWithinBounds ==
  (call.fn = "DeviceOptimizer" /\ Truthy(result)) =>
    /\ DOMAIN result[2] = {clusters[i].id : i \in DOMAIN clusters}
    /\ \A i \in DOMAIN clusters :
         LET n == result[2][clusters[i].id]
         IN /\ n \in Nat
            /\ n * One <= clusters[i].max_capacity
            /\ ~IsNone(oc.max_capacity) => n * One <= Val(oc.max_capacity)

C22_Witness ==
  /\ call.fn = "DeviceOptimizer"
  /\ pc = "done"
  /\ Truthy(result)
  /\ Len(clusters) = 2
  /\ ~IsNone(oc.max_capacity)
  /\ \E i \in DOMAIN clusters :
       /\ Val(oc.max_capacity) < clusters[i].max_capacity
       /\ result[2][clusters[i].id] * One = Val(oc.max_capacity)

\* C23: a call of adjust(n), n >= 2, leaves the receiver as it was and
\* returns a list whose first element is the receiver and whose elements
\* all carry the receiver's id, load and cluster_ids
C23_AdjustKeepsIdentity ==
  [][(pc = "idle" /\ call'.fn = "adjust" /\ pc' = "done") =>
       /\ call'.n_iter >= 2
       /\ devices' = devices
       /\ ret'[1] = devices[call'.device]
       /\ \A j \in DOMAIN ret' :
            /\ ret'[j].id = devices[call'.device].id
            /\ ret'[j].load = devices[call'.device].load
            /\ ret'[j].cluster_ids = devices[call'.device].cluster_ids]_vars

C23_Witness ==
  /\ call.fn = "adjust"
  /\ pc = "done"
  /\ Len(ret) >= 3
  /\ ret[3].capacity_load # devices[call.device].capacity_load
  /\ ret[3].load # ret[3].capacity_load
  /\ ret[3].load = devices[call.device].load

\* C24: no construction and no solve, alone or inside optimize_contention
\* or the sweep, changes an input cluster's energy list or an input device
C24_InputsNeverWritten ==
  [][clusters' = clusters /\ devices' = devices]_vars

\* a sweep whose strict attempt over a plateau curve failed and whose
\* penalized attempt then solved
C24_Witness ==
  /\ call.fn = "optimize"
  /\ pc = "done"
  /\ \E i \in DOMAIN clusters : Plateau(clusters[i].energy)
  /\ \E a \in DOMAIN log, b \in DOMAIN log :
       /\ a < b
       /\ IsNone(log[a].contention_corr)
       /\ ~Truthy(log[a].result)
       /\ ~IsNone(log[b].contention_corr)
       /\ Truthy(log[b].result)

\* C25 (as claimed): every point (assignment and VM counts) feasible for
\* the model built under contention_corr None is feasible for the model
\* built from the same inputs under the default penalty
C25_StrictWithinPenalized ==
  (call.fn = "DeviceOptimizer" /\ pc = "built" /\ IsNone(oc.contention_corr)) =>
    LET r == DeviceOptimizerInit(devices, clusters, oc.min_capacity,
                                 oc.max_capacity, Some(DefaultContentionCorr))
    IN /\ r.raised = ""
       /\ \A s \in Feasible(BuiltModel) :
            \E t \in Feasible(add_vars(r.value)) :
              t.x = s.x /\ t.n_vms = s.n_vms

\* the smallest integer >= the fixed-point load L
Ceiling(L) == (L + One - 1) \div One

\* the assignment x with n_vms taken as the ceiling of each cluster's
\* capacity load satisfies the capacity, variable-bound, global-band and
\* energy constraints of the model
FitsWithCeiling(self, x) ==
  LET n == [c \in DOMAIN self.clusters |->
              IF c \in LoadedClusters(self)
                THEN Ceiling(capacity_cluster_load(self, x, c)) ELSE 0]
  IN /\ \A c \in LoadedClusters(self) :
          capacity_constraint(self, capacity_cluster_load(self, x, c), c)
     /\ \A c \in DOMAIN n : n[c] \in n_vms_domain(self, c)
     /\ capacity_lb_constraint(self, n)
     /\ capacity_ub_constraint(self, n)
     /\ FeasibleE(self, x) # {}

\* C26 (as claimed): for every assignment the linkage admits an integer
\* n_vms[c] for every cluster, and a model with an assignment that fits
\* with the ceilings as VM counts is not reported as no-solution
C26_LinkageNeverInfeasible ==
  (call.fn = "DeviceOptimizer" /\ pc = "done") =>
    /\ \A x \in FeasibleX(BuiltModel), c \in LoadedClusters(BuiltModel) :
         LET L == capacity_cluster_load(BuiltModel, x, c)
         IN \E n \in 0..Ceiling(L) :
              /\ vm_count_lb_constraint(BuiltModel, L, n, c)
              /\ vm_count_ub_constraint(BuiltModel, L, n, c)
    /\ (\E x \in FeasibleX(BuiltModel) : FitsWithCeiling(BuiltModel, x))
         => Truthy(result)

\* C27 (as claimed): in every result a cluster with no allocated device,
\* listed by some device or by none, has vm_counts[c] = 0
C27_EmptyClusterHasNoVms ==
  (call.fn = "DeviceOptimizer" /\ pc = "done" /\ Truthy(result)) =>
    \A i \in DOMAIN clusters :
      AllocatedTo(clusters[i].id) = {} => result[2][clusters[i].id] = 0

\* the load of every cluster with two or more active breakpoints lies
\* within the load_x range of its active curve under the assignment x
WithinCurves(self, x) ==
  \A c \in DOMAIN self.energy_bpts :
    LET b == sorted(self.energy_bpts[c])
    IN Len(b) >= 2 =>
         /\ b[1][1] <= energy_cluster_load(self, x, c)
         /\ energy_cluster_load(self, x, c) <= b[Len(b)][1]

\* C28: in every result the load on a cluster with two or more active
\* breakpoints lies between the smallest and the largest load_x of its
\* active curve, so such a cluster whose smallest load_x is above 0 has a
\* device; when no assignment keeps every such cluster within its range the
\* solve reports no solution
C28_LoadWithinCurveRange ==
  (call.fn = "DeviceOptimizer" /\ pc = "done") =>
    /\ Truthy(result) =>
         \A i \in DOMAIN clusters :
           LET c == clusters[i].id
               b == ActiveCurve(c)
           IN Len(b) >= 2 =>
                /\ b[1][1] <= LoadOn(c)
                /\ LoadOn(c) <= b[Len(b)][1]
                /\ b[1][1] > 0 => AllocatedTo(c) # {}
    /\ (\A x \in FeasibleX(BuiltModel) : ~WithinCurves(BuiltModel, x))
         => ~Truthy(result)

\* a solve reported as no-solution although some assignment satisfies the
\* capacity, linkage and global-band constraints
C28_Witness ==
  /\ call.fn = "DeviceOptimizer"
  /\ pc = "done"
  /\ ~Truthy(result)
  /\ devices # <<>>
  /\ \E x \in FeasibleX(BuiltModel) : FeasibleN(BuiltModel, x) # {}
  /\ \A x \in FeasibleX(BuiltModel) : ~WithinCurves(BuiltModel, x)

\* C29 (as claimed): every assignment stored by scale_clusters_and_update_db
\* belongs to a (cluster, flavour) combination whose scale call succeeded
C29_PersistsScaledFlavoursOnly ==
  call.fn = "scale_clusters_and_update_db" =>
    \A i \in DOMAIN log :
      /\ <<log[i].cluster_id, log[i].flavour>> \in DOMAIN scale.futures
      /\ scale.futures[<<log[i].cluster_id, log[i].flavour>>].ok

\* C30 (as claimed): every cluster create_cluster_pool builds has its three
\* breakpoints in non-decreasing load_x order, 0 <= cont <= cap, and its
\* last breakpoint not beyond the cluster's max_capacity
C30_CurveOrderedWithinCapacity ==
  (call.fn = "create_cluster_pool" /\ pc = "done") =>
    \A i \in DOMAIN clusters :
      LET b == clusters[i].energy
      IN /\ Len(b) = 3
         /\ b[1][1] = 0
         /\ b[1][1] <= b[2][1]
         /\ b[2][1] <= b[3][1]
         /\ b[3][1] <= clusters[i].max_capacity

====
